---- MODULE Spec2Model ----
(***************************************************************************)
(* Model of trust/trusttree.py: the path normalizer, the counted trie,     *)
(* the pruner, the chain collapser, the two renderers and the filter       *)
(* deriver, and main()'s pipeline over them.                               *)
(*                                                                         *)
(* A Python str is the sequence of its one-character strings, so that      *)
(* "/a/x.c" is <<"/","a","/","x",".","c">>.  A Node object is an entry of  *)
(* `heap`; its identity is the route at which ensure_path created it.      *)
(***************************************************************************)
EXTENDS Integers, Sequences, FiniteSets, TLC

VARIABLES
    pc,          \* position in main(), or in the single call of a function
    ext_mode,    \* args.ext_mode
    prefix,      \* args.prefix
    arg,         \* the str argument of a single call (basename or path)
    ret,         \* the value a single call returned
    heap,        \* Node id -> [children, count]
    tree,        \* main()'s `tree`: {} is None, {id} the root Node
    accepted,    \* raw path -> how many times it was read and accepted
    nread,       \* lines read from stdin so far
    min_count,   \* args.min_count
    render,      \* the arguments of the render that ran
    out,         \* what the render wrote
    filters      \* the set collect_filters returned, with its mode

vars == <<pc, ext_mode, prefix, arg, ret, heap, tree, accepted, nread,
          min_count, render, out, filters>>

(***************************************************************************)
(* Bounds of the model.                                                    *)
(***************************************************************************)
MaxBaseLen == 4      \* longest enumerated basename
MaxPathLen == 5      \* longest enumerated raw path
MaxPaths == 3        \* lines read from stdin
MaxMinCount == 2     \* largest --min-count
MaxDepthArg == 2     \* largest --max-depth
MaxTop == 2          \* largest --top

(***************************************************************************)
(* Strings.                                                                *)
(***************************************************************************)
\* Code points, for Python's str comparison.
Ord(ch) ==
    CASE ch = "*" -> 42 [] ch = "." -> 46 [] ch = "/" -> 47
      [] ch = "a" -> 97 [] ch = "b" -> 98 [] ch = "c" -> 99 [] ch = "d" -> 100
      [] ch = "e" -> 101 [] ch = "g" -> 103 [] ch = "o" -> 111 [] ch = "p" -> 112
      [] ch = "r" -> 114 [] ch = "t" -> 116 [] ch = "x" -> 120 [] ch = "y" -> 121
      [] ch = "z" -> 122

RECURSIVE StrLess(_, _)
StrLess(s, t) ==
    IF t = <<>> THEN FALSE
    ELSE IF s = <<>> THEN TRUE
    ELSE IF Head(s) = Head(t) THEN StrLess(Tail(s), Tail(t))
    ELSE Ord(Head(s)) < Ord(Head(t))

StartsWith(s, p) == Len(s) >= Len(p) /\ SubSeq(s, 1, Len(p)) = p

EndsWith(s, p) == Len(s) >= Len(p) /\ SubSeq(s, Len(s) - Len(p) + 1, Len(s)) = p

Contains(s, ch) == \E i \in 1..Len(s) : s[i] = ch

\* str.find(ch): 0-based index of the first occurrence, -1 when absent.
Find(s, ch) ==
    IF Contains(s, ch)
    THEN (CHOOSE i \in 1..Len(s) : s[i] = ch /\ \A j \in 1..(i - 1) : s[j] # ch) - 1
    ELSE -1

\* str.split(ch): empty fields are kept.
RECURSIVE Split(_, _)
Split(s, ch) ==
    IF ~Contains(s, ch) THEN <<s>>
    ELSE LET i == Find(s, ch) + 1
         IN  <<SubSeq(s, 1, i - 1)>> \o Split(SubSeq(s, i + 1, Len(s)), ch)

\* ch.join(xs)
RECURSIVE Join(_, _)
Join(xs, ch) ==
    IF xs = <<>> THEN <<>>
    ELSE IF Len(xs) = 1 THEN xs[1]
    ELSE xs[1] \o <<ch>> \o Join(Tail(xs), ch)

\* [p for p in xs if p]
RECURSIVE NonEmpty(_)
NonEmpty(xs) ==
    IF xs = <<>> THEN <<>>
    ELSE IF Head(xs) = <<>> THEN NonEmpty(Tail(xs))
    ELSE <<Head(xs)>> \o NonEmpty(Tail(xs))

RECURSIVE SeqsUpTo(_, _)
SeqsUpTo(S, n) ==
    IF n = 0 THEN {<<>>}
    ELSE LET shorter == SeqsUpTo(S, n - 1)
         IN  shorter \cup {Append(s, ch) : s \in shorter, ch \in S}

(***************************************************************************)
(* os.path.normpath and os.path.join, as posixpath computes them.          *)
(***************************************************************************)
RECURSIVE normcomps(_, _, _)
normcomps(comps, new_comps, initial_slashes) ==
    IF comps = <<>> THEN new_comps
    ELSE LET comp == Head(comps)
             rest == Tail(comps)
         IN  IF comp = <<>> \/ comp = <<".">>
             THEN normcomps(rest, new_comps, initial_slashes)
             ELSE IF \/ comp # <<".", ".">>
                     \/ (initial_slashes = 0 /\ new_comps = <<>>)
                     \/ (new_comps # <<>> /\ new_comps[Len(new_comps)] = <<".", ".">>)
             THEN normcomps(rest, Append(new_comps, comp), initial_slashes)
             ELSE IF new_comps # <<>>
             THEN normcomps(rest, SubSeq(new_comps, 1, Len(new_comps) - 1), initial_slashes)
             ELSE normcomps(rest, new_comps, initial_slashes)

normpath(path) ==
    IF path = <<>> THEN <<".">>
    ELSE LET initial_slashes ==
                 IF ~StartsWith(path, <<"/">>) THEN 0
                 ELSE IF StartsWith(path, <<"/", "/">>) /\ ~StartsWith(path, <<"/", "/", "/">>)
                 THEN 2
                 ELSE 1
             comps == normcomps(Split(path, "/"), <<>>, initial_slashes)
             joined == Join(comps, "/")
             res == [i \in 1..initial_slashes |-> "/"] \o joined
         IN  IF res = <<>> THEN <<".">> ELSE res

path_join(a, b) ==
    IF StartsWith(b, <<"/">>) THEN b
    ELSE IF a = <<>> \/ EndsWith(a, <<"/">>) THEN a \o b
    ELSE a \o <<"/">> \o b

(***************************************************************************)
(* The path normalizer.                                                    *)
(***************************************************************************)
ExtModes == {"last", "full", "star"}

Star == <<"*">>

\* Faulty variant: the bucket is written without its leading "*".
get_ext_leaf_nostar(basename, mode) ==
    IF mode = "star" THEN Star
    ELSE IF StartsWith(basename, <<".">>) THEN Star
    ELSE IF ~Contains(basename, ".") THEN Star
    ELSE IF mode = "last"
    THEN LET fields == Split(basename, ".")
             ext == fields[Len(fields)]
         IN  IF ext # <<>> THEN <<".">> \o ext ELSE Star
    ELSE LET first_dot == Find(basename, ".")
             ext == SubSeq(basename, first_dot + 2, Len(basename))
         IN  IF ext # <<>> THEN <<".">> \o ext ELSE Star

\* Faulty variant: last mode cuts at the first dot, as full mode does.
get_ext_leaf_first(basename, mode) ==
    IF mode = "star" THEN Star
    ELSE IF StartsWith(basename, <<".">>) THEN Star
    ELSE IF ~Contains(basename, ".") THEN Star
    ELSE LET first_dot == Find(basename, ".")
             ext == SubSeq(basename, first_dot + 2, Len(basename))
         IN  IF ext # <<>> THEN <<"*", ".">> \o ext ELSE Star

get_ext_leaf(basename, mode) ==
    IF mode = "star" THEN Star
    ELSE IF StartsWith(basename, <<".">>) THEN Star
    ELSE IF ~Contains(basename, ".") THEN Star
    ELSE IF mode = "last"
    THEN LET fields == Split(basename, ".")
             ext == fields[Len(fields)]
         IN  IF ext # <<>> THEN <<"*", ".">> \o ext ELSE Star
    ELSE LET first_dot == Find(basename, ".")
             ext == SubSeq(basename, first_dot + 2, Len(basename))
         IN  IF ext # <<>> THEN <<"*", ".">> \o ext ELSE Star

path_to_parts(path, mode) ==
    LET norm == normpath(path)
    IN  IF norm = <<"/">> THEN <<<<"/">>, Star>>
        ELSE LET parts ==
                     IF StartsWith(norm, <<"/">>)
                     THEN <<<<"/">>>> \o NonEmpty(Split(Tail(norm), "/"))
                     ELSE LET ps == NonEmpty(Split(norm, "/"))
                          IN  IF ps # <<>> /\ ps[1] # <<"/">>
                              THEN <<<<"/">>>> \o ps
                              ELSE ps
             IN  IF parts # <<>>
                 THEN SubSeq(parts, 1, Len(parts) - 1)
                          \o <<get_ext_leaf(parts[Len(parts)], mode)>>
                 ELSE <<<<"/">>, Star>>

is_leaf_name(name) == name = Star \/ StartsWith(name, <<"*", ".">>)

(***************************************************************************)
(* Single calls of the two pure functions on enumerated inputs.            *)
(***************************************************************************)
ReportTarGz == <<"r","e","p","o","r","t",".","t","a","r",".","g","z">>

Basenames == SeqsUpTo({".", "a", "b"}, MaxBaseLen) \cup {ReportTarGz}

RawPaths == SeqsUpTo({"/", ".", "a"}, MaxPathLen)

EmptyMap == [k \in {} |-> <<>>]

Idle ==
    /\ prefix = <<"/">>
    /\ heap = EmptyMap
    /\ tree = {}
    /\ accepted = EmptyMap
    /\ nread = 0
    /\ min_count = 1
    /\ render = [kind |-> "none"]
    /\ out = <<>>
    /\ filters = [mode |-> "none", set |-> {}]

InitExt ==
    /\ pc = "call"
    /\ ext_mode \in ExtModes
    /\ arg \in Basenames
    /\ ret = <<>>
    /\ Idle

CallGetExtLeaf ==
    /\ pc = "call"
    /\ pc' = "returned"
    /\ ret' = get_ext_leaf(arg, ext_mode)
    /\ UNCHANGED <<ext_mode, prefix, arg, heap, tree, accepted, nread, min_count,
                   render, out, filters>>

SpecExt == InitExt /\ [][CallGetExtLeaf]_vars

InitParts ==
    /\ pc = "call"
    /\ ext_mode \in ExtModes
    /\ arg \in RawPaths
    /\ ret = <<>>
    /\ Idle

CallPathToParts ==
    /\ pc = "call"
    /\ pc' = "returned"
    /\ ret' = path_to_parts(arg, ext_mode)
    /\ UNCHANGED <<ext_mode, prefix, arg, heap, tree, accepted, nread, min_count,
                   render, out, filters>>

SpecParts == InitParts /\ [][CallPathToParts]_vars

(***************************************************************************)
(* The counted trie.  Node ids are routes: the root is <<>> and the Node   *)
(* ensure_path creates for `part` under `cur` is Append(cur, part).        *)
(***************************************************************************)
RootId == <<>>

NewNode == [children |-> EmptyMap, count |-> 0]

Put(m, k, v) == [x \in DOMAIN m \cup {k} |-> IF x = k THEN v ELSE m[x]]

Alloc(h, id) == [x \in DOMAIN h \cup {id} |-> IF x = id THEN NewNode ELSE h[x]]

\* Faulty variant of the loop: a node that already exists is not counted again.
RECURSIVE ensure_from_noinc(_, _, _)
ensure_from_noinc(h, cur, parts) ==
    IF parts = <<>> THEN h
    ELSE LET part == Head(parts)
             present == part \in DOMAIN h[cur].children
             child == IF present THEN h[cur].children[part] ELSE Append(cur, part)
             h1 == IF present THEN h
                   ELSE [Alloc(h, child) EXCEPT ![cur].children = Put(@, part, child)]
             h2 == IF present THEN h1 ELSE [h1 EXCEPT ![child].count = @ + 1]
         IN  ensure_from_noinc(h2, child, Tail(parts))

\* The loop of ensure_path, lines 72-76.
RECURSIVE ensure_from(_, _, _)
ensure_from(h, cur, parts) ==
    IF parts = <<>> THEN h
    ELSE LET part == Head(parts)
             present == part \in DOMAIN h[cur].children
             child == IF present THEN h[cur].children[part] ELSE Append(cur, part)
             h1 == IF present THEN h
                   ELSE [Alloc(h, child) EXCEPT ![cur].children = Put(@, part, child)]
             h2 == [h1 EXCEPT ![child].count = @ + 1]
         IN  ensure_from(h2, child, Tail(parts))

\* Faulty variant of ensure_path, over the faulty loop.
ensure_path_noinc(h, root, parts) ==
    ensure_from_noinc([h EXCEPT ![root].count = @ + 1], root, parts)

ensure_path(h, root, parts) ==
    ensure_from([h EXCEPT ![root].count = @ + 1], root, parts)

\* include_re and exclude_re are None: args.include_regex and
\* args.exclude_regex are left at their default "".
want_path(path, pfx) ==
    IF pfx # <<>> /\ ~StartsWith(path, pfx) THEN FALSE ELSE TRUE

(***************************************************************************)
(* The pruner.  A pruned Node is no longer referenced; its heap entry is   *)
(* left behind as garbage.                                                 *)
(***************************************************************************)
RECURSIVE prune_tree(_, _, _)
RECURSIVE prune_children(_, _, _, _, _)
prune_children(h, node, names, minc, new_children) ==
    IF names = {} THEN [heap |-> h, new_children |-> new_children]
    ELSE LET name == CHOOSE n \in names : TRUE
             child == h[node].children[name]
             r == prune_tree(h, child, minc)
         IN  prune_children(r.heap, node, names \ {name}, minc,
                            IF r.kept # {} THEN Put(new_children, name, child)
                            ELSE new_children)

\* Faulty variant: a node whose count equals the threshold is pruned too.
prune_tree_le(h, node, minc) ==
    IF h[node].count <= minc THEN [heap |-> h, kept |-> {}]
    ELSE LET r == prune_children(h, node, DOMAIN h[node].children, minc, EmptyMap)
         IN  [heap |-> [r.heap EXCEPT ![node].children = r.new_children],
              kept |-> {node}]

prune_tree(h, node, minc) ==
    IF h[node].count < minc THEN [heap |-> h, kept |-> {}]
    ELSE LET r == prune_children(h, node, DOMAIN h[node].children, minc, EmptyMap)
         IN  [heap |-> [r.heap EXCEPT ![node].children = r.new_children],
              kept |-> {node}]

(***************************************************************************)
(* The chain collapser.                                                    *)
(***************************************************************************)
\* The while loop of lines 164-167.
RECURSIVE chain_end(_, _, _)
chain_end(h, cur_name, cur_node) ==
    IF Cardinality(DOMAIN h[cur_node].children) = 1
    THEN LET child_name == CHOOSE k \in DOMAIN h[cur_node].children : TRUE
             child_node == h[cur_node].children[child_name]
         IN  chain_end(h,
                       IF cur_name # <<>> THEN cur_name \o <<"/">> \o child_name
                       ELSE child_name,
                       child_node)
    ELSE [name |-> cur_name, node |-> cur_node]

RECURSIVE collapse_chains(_, _, _)
RECURSIVE collapse_children(_, _, _, _)
\* The for loops of lines 169-171 and 195-197 over `names` of `children`.
collapse_children(h, children, names, collapsed_children) ==
    IF names = {} THEN [heap |-> h, collapsed_children |-> collapsed_children]
    ELSE LET ch_name == CHOOSE n \in names : TRUE
             r == collapse_chains(h, ch_name, children[ch_name])
         IN  collapse_children(r.heap, children, names \ {ch_name},
                               Put(collapsed_children, r.name, r.node))

\* Faulty variant: the children of the run's last node are left uncollapsed.
collapse_chains_shallow(h, name, node) ==
    LET e == chain_end(h, name, node)
    IN  [name |-> e.name, node |-> e.node, heap |-> h]

collapse_chains(h, name, node) ==
    LET e == chain_end(h, name, node)
        r == collapse_children(h, h[e.node].children, DOMAIN h[e.node].children,
                               EmptyMap)
    IN  [name |-> e.name, node |-> e.node,
         heap |-> [r.heap EXCEPT ![e.node].children = r.collapsed_children]]

(***************************************************************************)
(* The renderers.                                                          *)
(***************************************************************************)
\* The sort key (is_leaf_name(name), -count, name) of line 179, compared as
\* Python compares tuples (False < True).
KeyLess(h, a, b) ==
    LET la == is_leaf_name(a[1])
        lb == is_leaf_name(b[1])
        ca == h[a[2]].count
        cb == h[b[2]].count
    IN  IF la # lb THEN lb
        ELSE IF ca # cb THEN ca > cb
        ELSE StrLess(a[1], b[1])

RECURSIVE SortItems(_, _)
SortItems(h, S) ==
    IF S = {} THEN <<>>
    ELSE LET m == CHOOSE x \in S : \A y \in S \ {x} : KeyLess(h, x, y)
         IN  <<m>> \o SortItems(h, S \ {m})

\* A list of (name, Node) pairs.
sorted_children(h, node) ==
    SortItems(h, {<<k, h[node].children[k]>> : k \in DOMAIN h[node].children})

\* items[:top] under `if top and len(items) > top`; a negative top drops
\* the last -top items.
TopSlice(items, top) ==
    IF top # 0 /\ Len(items) > top
    THEN IF top > 0 THEN SubSeq(items, 1, top)
         ELSE IF Len(items) + top > 0 THEN SubSeq(items, 1, Len(items) + top)
         ELSE <<>>
    ELSE items

\* A printed line is [prefix, connector, name, count]: prefix is the list of
\* pipe/dash glyphs, one per level, connector the tee or corner glyph, and
\* count is {n} when show_counts and {} otherwise.  The two glyph sets are
\* one set of glyph names here.
RECURSIVE print_items(_, _, _, _, _, _, _, _)
print_items(h, items, i, prfx, depth, show_counts, max_depth, top) ==
    IF i > Len(items) THEN <<>>
    ELSE LET name == items[i][1]
             child == items[i][2]
             is_last == (i = Len(items))
             line == [prefix |-> prfx,
                      connector |-> IF is_last THEN "corner" ELSE "tee",
                      name |-> name,
                      count |-> IF show_counts THEN {h[child].count} ELSE {}]
             below ==
                 IF max_depth # 0 /\ depth + 1 >= max_depth THEN <<>>
                 ELSE print_items(h, TopSlice(sorted_children(h, child), top), 1,
                                  Append(prfx, IF is_last THEN "dash" ELSE "pipe"),
                                  depth + 1, show_counts, max_depth, top)
         IN  <<line>> \o below
                 \o print_items(h, items, i + 1, prfx, depth, show_counts, max_depth, top)

\* `working` is a Node of its own; no route is the id << <<>> >>.
WorkingId == << <<>> >>

print_tree(h, root_node, show_counts, max_depth, top, compact) ==
    LET h0 == [Alloc(h, WorkingId) EXCEPT
                   ![WorkingId] = [children |-> h[root_node].children,
                                   count |-> h[root_node].count]]
        r == IF compact
             THEN collapse_children(h0, h0[WorkingId].children,
                                    DOMAIN h0[WorkingId].children, EmptyMap)
             ELSE [heap |-> h0, collapsed_children |-> h0[WorkingId].children]
        h1 == [r.heap EXCEPT ![WorkingId].children = r.collapsed_children]
        lines == print_items(h1, TopSlice(sorted_children(h1, WorkingId), top), 1,
                             <<>>, 0, show_counts, max_depth, top)
    IN  [heap |-> [id \in DOMAIN h |-> h1[id]],
         root |-> [name |-> <<"/">>,
                   count |-> IF show_counts THEN {h1[WorkingId].count} ELSE {}],
         lines |-> lines]

RECURSIVE json_slice(_, _, _, _, _, _)
RECURSIVE json_items(_, _, _, _, _, _)
json_items(h, items, i, depth, max_depth, top) ==
    IF i > Len(items) THEN <<>>
    ELSE <<json_slice(h, items[i][1], items[i][2], depth, max_depth, top)>>
             \o json_items(h, items, i + 1, depth, max_depth, top)

\* Faulty variant: the depth cutoff comes one level late.
json_slice_gt(h, name, node, depth, max_depth, top) ==
    IF max_depth # 0 /\ depth > max_depth
    THEN [name |-> name, count |-> h[node].count, children |-> <<>>]
    ELSE [name |-> name, count |-> h[node].count,
          children |-> json_items(h, TopSlice(sorted_children(h, node), top), 1,
                                  depth + 1, max_depth, top)]

json_slice(h, name, node, depth, max_depth, top) ==
    IF max_depth # 0 /\ depth >= max_depth
    THEN [name |-> name, count |-> h[node].count, children |-> <<>>]
    ELSE [name |-> name, count |-> h[node].count,
          children |-> json_items(h, TopSlice(sorted_children(h, node), top), 1,
                                  depth + 1, max_depth, top)]

\* root_obj of main(), lines 285-290.
json_root(h, root_node, max_depth, top) ==
    [name |-> <<"/">>, count |-> h[root_node].count,
     children |-> json_items(h, TopSlice(sorted_children(h, root_node), top), 1,
                             1, max_depth, top)]

(***************************************************************************)
(* The filter deriver.                                                     *)
(***************************************************************************)
FilterModes == {"ext", "dir", "all"}

RECURSIVE DirElems(_)
DirElems(stack) ==
    IF stack = <<>> THEN <<>>
    ELSE LET s == Head(stack)
         IN  IF s = <<"/">> \/ s = Star \/ StartsWith(s, <<"*", ".">>)
             THEN DirElems(Tail(stack))
             ELSE <<s>> \o DirElems(Tail(stack))

current_dir_path(stack) ==
    IF stack = <<>> THEN <<"/">>
    ELSE LET elems == DirElems(stack)
         IN  IF elems # <<>> THEN <<"/">> \o Join(elems, "/") ELSE <<"/">>

RECURSIVE walk(_, _, _, _, _)
walk(h, name, node, stack0, mode) ==
    LET stack == Append(stack0, name)
    IN  IF is_leaf_name(name)
        THEN IF mode \in {"ext", "all"}
             THEN {path_join(current_dir_path(stack0), name)}
             ELSE {}
        ELSE (IF mode \in {"dir", "all"}
              THEN {path_join(current_dir_path(stack), <<"*", "*">>)}
              ELSE {})
             \cup UNION {walk(h, ch_name, h[node].children[ch_name], stack, mode) :
                         ch_name \in DOMAIN h[node].children}

collect_filters(h, node, mode) ==
    UNION {walk(h, name, h[node].children[name], <<>>, mode) :
           name \in DOMAIN h[node].children}

(***************************************************************************)
(* main(): build_tree reads stdin line by line, then prune_tree, then one  *)
(* of the two renders, then the filter suggestions.  An argument is drawn  *)
(* where main() first reads it.                                            *)
(***************************************************************************)
PathPool ==
    { <<"/","a","/","x",".","c">>,
      <<"/","a","/","b","/","x",".","c">>,
      <<"/","a","/","b","/","y",".","d">>,
      <<"/","x",".","c">>,
      <<"/","/">>,
      <<"/","*","/","x",".","c">> }

Prefixes == { <<"/">>, <<"/","a">> }

\* --max-depth and --top are any int; one negative value stands for them all.
DepthArgs == (0 - 1)..MaxDepthArg

TopArgs == (0 - 1)..MaxTop

Init ==
    /\ pc = "build"
    /\ ext_mode \in ExtModes
    /\ prefix \in Prefixes
    /\ arg = <<>>
    /\ ret = <<>>
    /\ heap = [id \in {RootId} |-> NewNode]
    /\ tree = {RootId}
    /\ accepted = [p \in PathPool |-> 0]
    /\ nread = 0
    /\ min_count = 1
    /\ render = [kind |-> "none"]
    /\ out = <<>>
    /\ filters = [mode |-> "none", set |-> {}]

\* One iteration of build_tree's loop, lines 143-147.
ReadPath(path) ==
    /\ pc = "build"
    /\ nread < MaxPaths
    /\ nread' = nread + 1
    /\ IF want_path(path, prefix)
       THEN /\ heap' = ensure_path(heap, RootId, path_to_parts(path, ext_mode))
            /\ accepted' = [accepted EXCEPT ![path] = @ + 1]
       ELSE UNCHANGED <<heap, accepted>>
    /\ UNCHANGED <<pc, ext_mode, prefix, arg, ret, tree, min_count, render, out, filters>>

\* End of stdin: lines 148 and 269-271.
Prune(minc) ==
    /\ pc = "build"
    /\ LET r == prune_tree(heap, RootId, minc)
       IN  /\ heap' = r.heap
           /\ tree' = r.kept
           /\ pc' = IF r.kept = {} \/ DOMAIN r.heap[RootId].children = {}
                    THEN "exit" ELSE "pruned"
    /\ min_count' = minc
    /\ UNCHANGED <<ext_mode, prefix, arg, ret, accepted, nread, render, out, filters>>

\* Lines 298-299.
RenderText(show_counts, max_depth, top, compact) ==
    /\ pc = "pruned"
    /\ LET r == print_tree(heap, RootId, show_counts, max_depth, top, compact)
       IN  /\ heap' = r.heap
           /\ out' = [root |-> r.root, lines |-> r.lines]
    /\ render' = [kind |-> "text", show_counts |-> show_counts,
                  max_depth |-> max_depth, top |-> top, compact |-> compact]
    /\ pc' = "rendered"
    /\ UNCHANGED <<ext_mode, prefix, arg, ret, tree, accepted, nread, min_count, filters>>

\* Lines 273-291.
RenderJson(max_depth, top) ==
    /\ pc = "pruned"
    /\ out' = json_root(heap, RootId, max_depth, top)
    /\ render' = [kind |-> "json", max_depth |-> max_depth, top |-> top]
    /\ pc' = "rendered"
    /\ UNCHANGED <<ext_mode, prefix, arg, ret, heap, tree, accepted, nread, min_count,
                   filters>>

\* Lines 292-295 and 301-304, when args.emit_filter.
EmitFilter(mode) ==
    /\ pc = "rendered"
    /\ filters' = [mode |-> mode, set |-> collect_filters(heap, RootId, mode)]
    /\ pc' = "done"
    /\ UNCHANGED <<ext_mode, prefix, arg, ret, heap, tree, accepted, nread, min_count,
                   render, out>>

Next ==
    \/ \E path \in PathPool : ReadPath(path)
    \/ \E minc \in 0..MaxMinCount : Prune(minc)
    \/ \E show_counts \in BOOLEAN, max_depth \in DepthArgs, top \in TopArgs,
          compact \in BOOLEAN : RenderText(show_counts, max_depth, top, compact)
    \/ \E max_depth \in DepthArgs, top \in TopArgs : RenderJson(max_depth, top)
    \/ \E mode \in FilterModes : EmitFilter(mode)

Spec == Init /\ [][Next]_vars

(***************************************************************************)
(* Reading a tree: its routes (the sequences of child names from the       *)
(* root), and the Node at the end of a route.                              *)
(***************************************************************************)
RECURSIVE RoutesFrom(_, _, _)
RoutesFrom(h, node, route) ==
    {route} \cup UNION {RoutesFrom(h, h[node].children[k], Append(route, k)) :
                        k \in DOMAIN h[node].children}

\* The routes of an optional tree ({} is None).
Routes(h, t) == UNION {RoutesFrom(h, root, <<>>) : root \in t}

RECURSIVE NodeFrom(_, _, _)
NodeFrom(h, node, route) ==
    IF route = <<>> THEN node
    ELSE NodeFrom(h, h[node].children[Head(route)], Tail(route))

NodeAt(h, route) == NodeFrom(h, RootId, route)

IsPrefix(r, s) == Len(r) <= Len(s) /\ SubSeq(s, 1, Len(r)) = r

Last(s) == s[Len(s)]

RECURSIVE SumOver(_, _)
SumOver(f, S) ==
    IF S = {} THEN 0
    ELSE LET x == CHOOSE y \in S : TRUE IN f[x] + SumOver(f, S \ {x})

\* How many of the accepted paths have a segment sequence through `route`.
Through(route) ==
    SumOver([p \in PathPool |->
                 IF IsPrefix(route, path_to_parts(p, ext_mode)) THEN accepted[p] ELSE 0],
            PathPool)

Childless(h, route) == DOMAIN h[NodeAt(h, route)].children = {}

\* C1: while build_tree inserts, the count of the node at every route is the
\* number of accepted paths whose segment sequence passes through that route,
\* every prefix of an inserted sequence is a route, and the root's count is the
\* number of accepted paths.
C1_CountsArePassages ==
    pc = "build" =>
        /\ \A r \in Routes(heap, tree) : heap[NodeAt(heap, r)].count = Through(r)
        /\ \A p \in PathPool : accepted[p] > 0 =>
               \A k \in 0..Len(path_to_parts(p, ext_mode)) :
                   SubSeq(path_to_parts(p, ext_mode), 1, k) \in Routes(heap, tree)
        /\ heap[RootId].count = SumOver(accepted, PathPool)

C1_Witness ==
    /\ pc = "build"
    /\ heap[RootId].count = 3
    /\ \E r \in Routes(heap, tree) : Len(r) = 2 /\ heap[NodeAt(heap, r)].count = 2
    /\ \E r \in Routes(heap, tree) : Len(r) = 3 /\ heap[NodeAt(heap, r)].count = 1

\* The routes of `h` whose node and every ancestor have count >= minc.
Survivors(h, minc) ==
    {r \in Routes(h, {RootId}) :
         \A k \in 0..Len(r) : h[NodeAt(h, SubSeq(r, 1, k))].count >= minc}

PruneStep == pc = "build" /\ pc' # "build"

\* C3: prune_tree with threshold T keeps exactly the nodes whose own count and
\* whose ancestors' counts are all >= T (nothing when the root's count is < T),
\* with their counts unchanged.
C3_PruneExact ==
    [][PruneStep =>
          /\ Routes(heap', tree') = Survivors(heap, min_count')
          /\ \A r \in Routes(heap', tree') :
                 heap'[NodeAt(heap', r)].count = heap[NodeAt(heap, r)].count
          /\ tree' = IF heap[RootId].count >= min_count' THEN {RootId} ELSE {}]_vars

\* A count >= T node all of whose children were pruned stays, childless.
C3_Witness ==
    /\ pc = "pruned"
    /\ min_count = 2
    /\ \E r \in Routes(heap, tree) :
           /\ r # <<>>
           /\ ~is_leaf_name(Last(r))
           /\ Childless(heap, r)
           /\ heap[NodeAt(heap, r)].count >= 2

LeafNamed(h, t) ==
    \A r \in Routes(h, t) : Childless(h, r) => r = <<>> \/ is_leaf_name(Last(r))

\* C4 as stated: after the build and after prune_tree, every childless node is
\* the root or has an extension-bucket name.
C4_LeavesAreBuckets ==
    pc \in {"build", "pruned"} => LeafNamed(heap, tree)

\* C4 amended: the build keeps every childless node a bucket or the root;
\* after prune_tree with threshold T a childless node is the root, a bucket, or
\* a node with count >= T that had children, all of count < T, before.
C4_LeavesAfterPrune ==
    /\ [](pc = "build" => LeafNamed(heap, tree))
    /\ [][PruneStep =>
             \A r \in Routes(heap', tree') :
                 Childless(heap', r) =>
                     \/ r = <<>>
                     \/ is_leaf_name(Last(r))
                     \/ /\ heap'[NodeAt(heap', r)].count >= min_count'
                        /\ ~Childless(heap, r)
                        /\ \A k \in DOMAIN heap[NodeAt(heap, r)].children :
                               heap[heap[NodeAt(heap, r)].children[k]].count
                                   < min_count']_vars

\* prune_tree ran and left a directory node, three levels down, childless.
C4_Witness ==
    /\ pc = "pruned"
    /\ \E r \in Routes(heap, tree) :
           Len(r) = 3 /\ Childless(heap, r) /\ ~is_leaf_name(Last(r))

\* An extension-bucket marker: "*", or "*." followed by a non-empty extension.
IsBucket(name) == name = Star \/ (StartsWith(name, <<"*", ".">>) /\ Len(name) > 2)

\* The components of the normalized path.
NormComponents(path) == NonEmpty(Split(normpath(path), "/"))

\* C5: path_to_parts returns the root marker, then the literal directory
\* components of the normalized path, then exactly one extension-bucket marker.
C5_PartsShape ==
    pc = "returned" =>
        /\ Len(ret) >= 2
        /\ ret[1] = <<"/">>
        /\ IsBucket(Last(ret))
        /\ LET comps == NormComponents(arg)
           IN  SubSeq(ret, 2, Len(ret) - 1) = SubSeq(comps, 1, Len(comps) - 1)

\* The suffix of `basename` after its last dot, and after its first dot.
AfterLastDot(basename) ==
    LET i == CHOOSE k \in 1..Len(basename) :
                 basename[k] = "." /\ \A j \in (k + 1)..Len(basename) : basename[j] # "."
    IN  SubSeq(basename, i + 1, Len(basename))

AfterFirstDot(basename) ==
    LET i == CHOOSE k \in 1..Len(basename) :
                 basename[k] = "." /\ \A j \in 1..(k - 1) : basename[j] # "."
    IN  SubSeq(basename, i + 1, Len(basename))

BucketOf(suffix) == IF suffix = <<>> THEN Star ELSE <<"*", ".">> \o suffix

\* C6: get_ext_leaf returns "*" in star mode, for a dotfile and for a basename
\* without a dot; otherwise "*." and the suffix after the last dot (last) or
\* after the first dot (full), and "*" when that suffix is empty.
C6_ExtLeaf ==
    pc = "returned" =>
        /\ ext_mode = "star" => ret = Star
        /\ (arg # <<>> /\ arg[1] = ".") => ret = Star
        /\ (\A i \in 1..Len(arg) : arg[i] # ".") => ret = Star
        /\ (ext_mode = "last" /\ arg # <<>> /\ arg[1] # "." /\ Contains(arg, "."))
               => ret = BucketOf(AfterLastDot(arg))
        /\ (ext_mode = "full" /\ arg # <<>> /\ arg[1] # "." /\ Contains(arg, "."))
               => ret = BucketOf(AfterFirstDot(arg))
        /\ arg = ReportTarGz =>
               ret = CASE ext_mode = "last" -> <<"*", ".", "g", "z">>
                       [] ext_mode = "full" -> <<"*", ".", "t", "a", "r", ".", "g", "z">>
                       [] ext_mode = "star" -> Star

\* report.tar.gz under full, where the first and the last dot differ.
C6_Witness ==
    /\ pc = "returned"
    /\ arg = ReportTarGz
    /\ ext_mode = "full"
    /\ ret = <<"*", ".", "t", "a", "r", ".", "g", "z">>

RenderStep == pc = "pruned" /\ pc' = "rendered"

\* Every accepted path got the root marker as its first segment.
RootedInput ==
    \A p \in PathPool : accepted[p] > 0 => path_to_parts(p, ext_mode)[1] = <<"/">>

\* C2: a render, with or without chain collapsing, leaves every node of the
\* pruned tree with the children and count it had, and so leaves what
\* collect_filters returns for the pruned tree unchanged (stated for inputs
\* whose segment sequences all start at the root marker).
C2_RenderKeepsTree ==
    [][(RenderStep /\ RootedInput) =>
          /\ \A r \in Routes(heap, tree) :
                 /\ r \in Routes(heap', tree')
                 /\ NodeAt(heap', r) = NodeAt(heap, r)
                 /\ heap'[NodeAt(heap, r)] = heap[NodeAt(heap, r)]
          /\ \A mode \in FilterModes :
                 collect_filters(heap', RootId, mode) = collect_filters(heap, RootId, mode)]_vars

\* The heap is the pruned tree when no collapsing render ran on it.
Uncollapsed == render.kind = "json" \/ (render.kind = "text" /\ ~render.compact)

\* The pattern of the node at `route`: the directory of the literal components
\* on the route (the root marker left out), then `last`.
DirOf(components) ==
    <<"/">> \o Join([i \in 1..Len(components) |-> components[i]], "/")

RECURSIVE WithoutRootMarker(_)
WithoutRootMarker(route) ==
    IF route = <<>> THEN <<>>
    ELSE IF Head(route) = <<"/">> THEN WithoutRootMarker(Tail(route))
    ELSE <<Head(route)>> \o WithoutRootMarker(Tail(route))

ExtPatterns(h, t) ==
    {path_join(DirOf(WithoutRootMarker(SubSeq(r, 1, Len(r) - 1))), Last(r)) :
         r \in {r \in Routes(h, t) : r # <<>> /\ is_leaf_name(Last(r))}}

DirPatterns(h, t) ==
    {path_join(DirOf(WithoutRootMarker(r)), <<"*", "*">>) :
         r \in {r \in Routes(h, t) : r # <<>> /\ ~is_leaf_name(Last(r))}}

\* C7: on the pruned tree collect_filters returns, in mode ext, the pattern
\* directory/bucket of every bucket node and nothing ending in "**"; in mode
\* dir, the pattern directory/** of every other node below the root and no
\* bucket pattern; in mode all, both.
C7_FiltersPerNode ==
    (pc = "done" /\ Uncollapsed) =>
        /\ filters.mode = "ext" => filters.set = ExtPatterns(heap, tree)
        /\ filters.mode = "dir" => filters.set = DirPatterns(heap, tree)
        /\ filters.mode = "all" =>
               filters.set = ExtPatterns(heap, tree) \cup DirPatterns(heap, tree)

(***************************************************************************)
(* What a render reports: the list, in output order, of the nodes shown    *)
(* below the root, each with its depth, its name and its count ({} when    *)
(* the count is not shown).                                                *)
(***************************************************************************)
TextNodes(lines) ==
    [i \in 1..Len(lines) |->
         [depth |-> Len(lines[i].prefix) + 1, name |-> lines[i].name,
          count |-> lines[i].count]]

RECURSIVE JsonNodes(_, _, _)
JsonNodes(objs, depth, show_counts) ==
    IF objs = <<>> THEN <<>>
    ELSE LET o == Head(objs)
         IN  <<[depth |-> depth, name |-> o.name,
                count |-> IF show_counts THEN {o.count} ELSE {}]>>
                 \o JsonNodes(o.children, depth + 1, show_counts)
                 \o JsonNodes(Tail(objs), depth, show_counts)

\* The nodes the render that ran reported.
Reported ==
    IF render.kind = "json" THEN JsonNodes(out.children, 1, TRUE)
    ELSE TextNodes(out.lines)

\* Index of the reported parent of reported node i; 0 is the root.
ParentIdx(nodes, i) ==
    IF nodes[i].depth = 1 THEN 0
    ELSE CHOOSE j \in 1..(i - 1) :
             /\ nodes[j].depth = nodes[i].depth - 1
             /\ \A k \in (j + 1)..(i - 1) : nodes[k].depth >= nodes[i].depth

RECURSIVE RouteOf(_, _)
RouteOf(nodes, i) ==
    IF i = 0 THEN <<>>
    ELSE Append(RouteOf(nodes, ParentIdx(nodes, i)), nodes[i].name)

\* C8: on the same uncollapsed tree and the same max_depth and top, print_tree
\* and the JSON render report the same nodes, in the same order, with the same
\* counts; with max_depth > 0 no reported node is deeper than max_depth, and
\* with top = 0 every node down to depth max_depth is reported.
C8_RenderersAgree ==
    (pc = "rendered" /\ Uncollapsed) =>
        /\ render.kind = "text" =>
               LET j == json_root(heap, RootId, render.max_depth, render.top)
               IN  /\ TextNodes(out.lines) = JsonNodes(j.children, 1, render.show_counts)
                   /\ out.root.name = j.name
                   /\ render.show_counts => out.root.count = {j.count}
        /\ render.kind = "json" =>
               LET p == print_tree(heap, RootId, TRUE, render.max_depth, render.top, FALSE)
               IN  /\ JsonNodes(out.children, 1, TRUE) = TextNodes(p.lines)
                   /\ out.name = p.root.name
                   /\ {out.count} = p.root.count
        /\ render.max_depth > 0 =>
               \A i \in 1..Len(Reported) : Reported[i].depth <= render.max_depth
        /\ (render.top = 0 /\ render.max_depth >= 0) =>
               {RouteOf(Reported, i) : i \in 1..Len(Reported)}
                   = {r \in Routes(heap, tree) :
                          /\ r # <<>>
                          /\ render.max_depth > 0 => Len(r) <= render.max_depth}

\* Both renders at the depth cutoff: a node at depth 2 = max_depth is reported
\* and has children in the tree.
C8_Witness ==
    /\ pc = "rendered"
    /\ Uncollapsed
    /\ render.max_depth = 2
    /\ \E i \in 1..Len(Reported) :
           /\ Reported[i].depth = 2
           /\ ~Childless(heap, RouteOf(Reported, i))

\* C9: with top = N > 0, under every reported node no child left out of the
\* output has a strictly greater count than a child that is shown (stated for
\* inputs whose segment sequences all start at the root marker).
C9_TopByCount ==
    (pc = "rendered" /\ Uncollapsed /\ render.top > 0 /\ RootedInput) =>
        \A j \in 0..Len(Reported) :
            LET node == NodeAt(heap, RouteOf(Reported, j))
                shown == {Reported[i].name :
                              i \in {i \in 1..Len(Reported) : ParentIdx(Reported, i) = j}}
                omitted == DOMAIN heap[node].children \ shown
            IN  \A o \in omitted, s \in shown :
                    heap[heap[node].children[o]].count
                        <= heap[heap[node].children[s]].count

(***************************************************************************)
(* collapse_chains called on a node of the pruned tree under its name, as  *)
(* print_tree and collapse_chains itself call it, and then again on what   *)
(* it returned.                                                            *)
(***************************************************************************)
Collapse(node) ==
    /\ pc = "pruned"
    /\ node \in {NodeAt(heap, r) : r \in Routes(heap, tree) \ {<<>>}}
    /\ LET r == collapse_chains(heap, Last(node), node)
       IN  /\ heap' = r.heap
           /\ ret' = [name |-> r.name, node |-> r.node]
    /\ arg' = [name |-> Last(node), node |-> node]
    /\ pc' = "collapsed"
    /\ UNCHANGED <<ext_mode, prefix, tree, accepted, nread, min_count, render, out,
                   filters>>

CollapseAgain ==
    /\ pc = "collapsed"
    /\ LET r == collapse_chains(heap, ret.name, ret.node)
       IN  /\ heap' = r.heap
           /\ ret' = [name |-> r.name, node |-> r.node]
    /\ arg' = ret
    /\ pc' = "collapsed2"
    /\ UNCHANGED <<ext_mode, prefix, tree, accepted, nread, min_count, render, out,
                   filters>>

NextCollapse ==
    \/ \E path \in PathPool : ReadPath(path)
    \/ \E minc \in 0..MaxMinCount : Prune(minc)
    \/ \E node \in DOMAIN heap : Collapse(node)
    \/ CollapseAgain

SpecCollapse == Init /\ [][NextCollapse]_vars

OneChild(h, node) == Cardinality(DOMAIN h[node].children) = 1

\* The names down the maximal run of single-child nodes that starts at `node`,
\* and the node the run ends at.
RECURSIVE RunNames(_, _)
RunNames(h, node) ==
    IF OneChild(h, node)
    THEN LET k == CHOOSE x \in DOMAIN h[node].children : TRUE
         IN  <<k>> \o RunNames(h, h[node].children[k])
    ELSE <<>>

RECURSIVE RunEnd(_, _)
RunEnd(h, node) ==
    IF OneChild(h, node)
    THEN RunEnd(h, h[node].children[CHOOSE x \in DOMAIN h[node].children : TRUE])
    ELSE node

\* A route of compound names, taken apart into the names it joins.
RECURSIVE Expand(_)
Expand(route) ==
    IF route = <<>> THEN <<>> ELSE Split(Head(route), "/") \o Expand(Tail(route))

\* C10: collapse_chains(name, node) returns the "/"-joined names of the maximal
\* single-child run from `node` and the run's last node; below that node every
\* maximal run has become one child under its joined name, so that no node
\* there has exactly one child and the routes, taken apart, are the routes of
\* the run ends before; no count changes and no node outside is touched; and
\* collapse_chains on its own result returns the same name, node and tree.
C10_Collapse ==
    /\ [][(pc = "pruned" /\ pc' = "collapsed") =>
             LET end == RunEnd(heap, arg'.node)
                 before == RoutesFrom(heap, end, <<>>)
                 after == RoutesFrom(heap', end, <<>>)
             IN  /\ ret'.name = Join(<<arg'.name>> \o RunNames(heap, arg'.node), "/")
                 /\ ret'.node = end
                 /\ DOMAIN heap' = DOMAIN heap
                 /\ \A id \in DOMAIN heap : heap'[id].count = heap[id].count
                 /\ \A id \in DOMAIN heap :
                        (~IsPrefix(end, id)) => heap'[id] = heap[id]
                 /\ \A r \in after \ {<<>>} : ~OneChild(heap', NodeFrom(heap', end, r))
                 /\ \A r \in after :
                        NodeFrom(heap', end, r) = NodeFrom(heap, end, Expand(r))
                 /\ {Expand(r) : r \in after}
                        = {r \in before :
                               r = <<>> \/ ~OneChild(heap, NodeFrom(heap, end, r))}]_vars
    /\ [][(pc = "collapsed" /\ pc' = "collapsed2") => (ret' = ret /\ heap' = heap)]_vars

\* The chain / -> a -> b, where b has two children, collapsed into "//a/b"
\* and collapsed again.
C10_Witness ==
    /\ pc = "collapsed2"
    /\ ret.name = <<"/", "/", "a", "/", "b">>
    /\ ret.node = << <<"/">>, <<"a">>, <<"b">> >>
    /\ Cardinality(DOMAIN heap[ret.node].children) = 2

====
